---- MODULE Spec2Model ----
(***************************************************************************)
(* A model of src/binance.py: Client.request (the signed request / retry   *)
(* loop), create_listen_key, overtime_listen_key, trade_market,            *)
(* transfer_asset and connect_websocket, run as asyncio coroutines on one  *)
(* event loop, and the helpers float_to_str_floor / _ceil / _round on      *)
(* IEEE-754 doubles.                                                       *)
(*                                                                         *)
(* Texts (query strings, response bodies) are sequences of units; a unit   *)
(* stands for one character or one lexeme of the Python str.  A mapping    *)
(* (a Python dict, which keeps insertion order) is a sequence of <<key,    *)
(* value>> pairs with distinct keys.                                       *)
(***************************************************************************)
EXTENDS Integers, Sequences, FiniteSets, TLC

VARIABLES
    only_print_error,    \* module global, binance.py line 27
    trace_to_file,       \* module global, binance.py line 28
    print_simple_trace,  \* module global, binance.py line 29
    clock,               \* time.time() in milliseconds
    heap,                \* the dict objects: the callers' mappings and the dict literals
    call,                \* per task: the operation the caller invoked and its arguments
    pc,                  \* per task: where the coroutine stands
    frame,               \* per task: the locals of Client.request
    sent,                \* per task: the URLs handed to the session, one per network attempt
    recv,                \* per task: the responses received, one per network attempt
    ret,                 \* per task: how Client.request ended
    result,              \* per task: how the operation the caller invoked ended
    console,             \* what print() wrote, one block per entry
    trace_file,          \* the records appended to requests_trace.txt
    slept,               \* per task: the arguments of the asyncio.sleep calls made
    opened               \* per task: the URLs handed to websockets.connect

tunables == <<only_print_error, trace_to_file, print_simple_trace>>
vars == <<only_print_error, trace_to_file, print_simple_trace, clock, heap, call, pc,
          frame, sent, recv, ret, result, console, trace_file, slept, opened>>

(***************************************************************************)
(* Bounds of the model.                                                    *)
(***************************************************************************)
MaxClock == 2
MaxRetry == 2

Tasks == {1, 2}

(***************************************************************************)
(* Program constants.                                                      *)
(***************************************************************************)
TraceTextLimit == 50
DefaultRetryCount == 3
DefaultRetryInterval == 0

base_url == "binance.com"
private_key == "private"
None == "<None>"

CallerDicts == {"d1", "d2"}
LitDict(t) == IF t = 1 THEN "lit1" ELSE "lit2"
DictIds == CallerDicts \cup {LitDict(t) : t \in Tasks}

(***************************************************************************)
(* Python built-ins on the values of the model.                            *)
(***************************************************************************)
Upper(s) ==
    CASE s = "get" -> "GET"
      [] s = "post" -> "POST"
      [] s = "Put" -> "PUT"
      [] s = "delete" -> "DELETE"
      [] s = "btcusdt" -> "BTCUSDT"
      [] s = "main" -> "MAIN"
      [] s = "sell" -> "SELL"
      [] s = "usdt" -> "USDT"
      [] s = "main_c2c" -> "MAIN_C2C"
      [] OTHER -> s

Last(s) == s[Len(s)]

Min(a, b) == IF a <= b THEN a ELSE b

Max(a, b) == IF a >= b THEN a ELSE b

\* text[:n]
Take(text, n) == SubSeq(text, 1, Min(n, Len(text)))

HasKey(d, k) == \E i \in 1..Len(d) : d[i][1] = k

\* The dict rebuilt with the one key: every other entry is lost.
SetItemDropsOthers(d, k, v) == << <<k, v>> >>

\* d.setdefault(k, v) in place of d[k] = v: a value already there is kept.
SetItemKeepsOld(d, k, v) == IF HasKey(d, k) THEN d ELSE Append(d, <<k, v>>)

\* d[k] = v on a dict: an existing key keeps its place, a new key goes last.
SetItem(d, k, v) ==
    IF HasKey(d, k)
    THEN [i \in 1..Len(d) |-> IF d[i][1] = k THEN <<k, v>> ELSE d[i]]
    ELSE Append(d, <<k, v>>)

\* d[k]
GetItem(d, k) == d[CHOOSE i \in 1..Len(d) : d[i][1] = k][2]

(***************************************************************************)
(* Python numbers.  An int is unbounded: it is kept as its limbs in base    *)
(* LimbBase, lowest first, without leading zero limbs (zero is <<>>).  A    *)
(* float is an IEEE-754 double: a significand m of exactly MantissaBits     *)
(* bits (or zero) and an exponent e, standing for m * 2^e.  Only numbers    *)
(* >= 0 in the normal range occur.                                          *)
(***************************************************************************)
LimbBits == 15
LimbBase == 32768
MantissaBits == 53

RECURSIVE Trim(_)
Trim(x) == IF Len(x) > 0 /\ x[Len(x)] = 0 THEN Trim(SubSeq(x, 1, Len(x) - 1)) ELSE x

\* The int n, 0 <= n < 2^31, as limbs.
RECURSIVE Big(_)
Big(n) == IF n = 0 THEN <<>> ELSE <<n % LimbBase>> \o Big(n \div LimbBase)

\* x * c + carry, for c and carry below LimbBase.
RECURSIVE MulAdd(_, _, _)
MulAdd(x, c, carry) ==
    IF Len(x) = 0 THEN Big(carry)
    ELSE LET v == x[1] * c + carry
         IN  <<v % LimbBase>> \o MulAdd(Tail(x), c, v \div LimbBase)

MulSmall(x, c) == Trim(MulAdd(x, c, 0))
AddSmall(x, c) == MulAdd(x, 1, c)

\* Quotient and remainder of x by d, for 0 < d <= LimbBase.
RECURSIVE DivMod(_, _)
DivMod(x, d) ==
    IF Len(x) = 0 THEN [q |-> <<>>, r |-> 0]
    ELSE LET hi == DivMod(Tail(x), d)
             v == hi.r * LimbBase + x[1]
         IN  [q |-> <<v \div d>> \o hi.q, r |-> v % d]

DivSmall(x, d) == LET qr == DivMod(x, d) IN [q |-> Trim(qr.q), r |-> qr.r]

RECURSIVE Pow2(_)
Pow2(k) == IF k = 0 THEN 1 ELSE 2 * Pow2(k - 1)

RECURSIVE BitLenSmall(_)
BitLenSmall(n) == IF n = 0 THEN 0 ELSE 1 + BitLenSmall(n \div 2)

BitLen(x) == IF Len(x) = 0 THEN 0 ELSE LimbBits * (Len(x) - 1) + BitLenSmall(x[Len(x)])

ShiftLeft(x, k) ==
    IF Len(x) = 0 THEN <<>>
    ELSE [i \in 1..(k \div LimbBits) |-> 0] \o MulSmall(x, Pow2(k % LimbBits))

ShiftRight(x, k) ==
    LET a == k \div LimbBits
    IN  IF a >= Len(x) THEN <<>>
        ELSE DivSmall(SubSeq(x, a + 1, Len(x)), Pow2(k % LimbBits)).q

\* x mod 2^k.
LowBits(x, k) ==
    LET a == k \div LimbBits
    IN  IF a >= Len(x) THEN x
        ELSE Trim(SubSeq(x, 1, a) \o <<x[a + 1] % Pow2(k % LimbBits)>>)

\* Bit k of x, bit 0 the lowest.
Bit(x, k) ==
    LET a == k \div LimbBits
    IN  IF a >= Len(x) THEN 0 ELSE (x[a + 1] \div Pow2(k % LimbBits)) % 2

\* x * 10^p and floor(x / 10^p) with whether the division left a remainder.
RECURSIVE MulPow10(_, _)
MulPow10(x, p) ==
    IF p = 0 THEN x
    ELSE IF p >= 4 THEN MulSmall(MulPow10(x, p - 4), 10000)
    ELSE MulSmall(MulPow10(x, p - 1), 10)

RECURSIVE DivPow10(_, _)
DivPow10(x, p) ==
    IF p = 0 THEN [q |-> x, inexact |-> FALSE]
    ELSE LET n == IF p >= 4 THEN 4 ELSE 1
             first == DivPow10(x, p - n)
             d == DivSmall(first.q, IF n = 4 THEN 10000 ELSE 10)
         IN  [q |-> d.q, inexact |-> first.inexact \/ d.r # 0]

\* x / 2^k rounded to the nearest int, ties to even; `inexact` says that x itself
\* stands for a value a little above x.
RoundShift(x, k, inexact) ==
    LET q == ShiftRight(x, k)
        up == /\ k > 0
              /\ Bit(x, k - 1) = 1
              /\ (LowBits(x, k - 1) # <<>> \/ inexact \/ Bit(q, 0) = 1)
    IN  IF up THEN AddSmall(q, 1) ELSE q

\* The double nearest to x * 2^e (a little above, if `inexact`), ties to even.
Double(x, e, inexact) ==
    IF Len(x) = 0 THEN [m |-> <<>>, e |-> 0]
    ELSE LET n == BitLen(x) IN
         IF n <= MantissaBits
         THEN [m |-> ShiftLeft(x, MantissaBits - n), e |-> e - (MantissaBits - n)]
         ELSE LET k == n - MantissaBits
                  q == RoundShift(x, k, inexact)
              IN  IF BitLen(q) > MantissaBits
                  THEN [m |-> ShiftRight(q, 1), e |-> e + k + 1]
                  ELSE [m |-> q, e |-> e + k]

\* The double nearest to x * 10^p: float('<x>e<p>'), and x / 10 ** -p for p < 0.
DecimalToDouble(x, p) ==
    IF p >= 0 THEN Double(MulPow10(x, p), 0, FALSE)
    ELSE LET k == Max(0, MantissaBits + 2 + ((-p) * 10) \div 3 + 1 - BitLen(x))
             d == DivPow10(ShiftLeft(x, k), -p)
         IN  Double(d.q, -k, d.inexact)

\* amount * (10 ** precision), for a float amount and precision >= 0.
float_times_pow10(a, precision) == Double(MulPow10(a.m, precision), a.e, FALSE)

\* math.floor, math.ceil and round of a float: an int.
math_floor(a) == IF a.e >= 0 THEN ShiftLeft(a.m, a.e) ELSE ShiftRight(a.m, -a.e)

math_ceil(a) ==
    IF a.e < 0 /\ LowBits(a.m, -a.e) # <<>>
    THEN AddSmall(math_floor(a), 1) ELSE math_floor(a)

\* int(x) taken for round(x): what lies below the last digit is cut off.
roundDown(a) == math_floor(a)

round(a) == IF a.e >= 0 THEN ShiftLeft(a.m, a.e) ELSE RoundShift(a.m, -a.e, FALSE)

\* -1, 0, 1 as the int x is below, equal to, above the int y.
Cmp(x, y) ==
    IF Len(x) # Len(y) THEN (IF Len(x) < Len(y) THEN -1 ELSE 1)
    ELSE LET diff == {i \in 1..Len(x) : x[i] # y[i]} IN
         IF diff = {} THEN 0
         ELSE LET i == CHOOSE j \in diff : \A k \in diff : k <= j
              IN  IF x[i] < y[i] THEN -1 ELSE 1

\* x - y - borrow for ints x >= y.
RECURSIVE SubBorrow(_, _, _)
SubBorrow(x, y, borrow) ==
    IF Len(x) = 0 THEN <<>>
    ELSE LET v == x[1] - (IF Len(y) > 0 THEN y[1] ELSE 0) - borrow
         IN  <<(v + LimbBase) % LimbBase>>
             \o SubBorrow(Tail(x), IF Len(y) > 0 THEN Tail(y) ELSE <<>>,
                          IF v < 0 THEN 1 ELSE 0)

Sub(x, y) == Trim(SubBorrow(x, y, 0))

\* The largest q < LimbBase with d * q <= x, found bit by bit from bit b down.
RECURSIVE QuotLimb(_, _, _, _)
QuotLimb(x, d, q, b) ==
    IF b < 0 THEN q
    ELSE LET q2 == q + Pow2(b)
         IN  IF Cmp(MulSmall(d, q2), x) <= 0
             THEN QuotLimb(x, d, q2, b - 1)
             ELSE QuotLimb(x, d, q, b - 1)

\* Quotient and remainder of the int x by the int d > 0.
RECURSIVE DivModBig(_, _)
DivModBig(x, d) ==
    IF Len(x) = 0 THEN [q |-> <<>>, r |-> <<>>]
    ELSE LET hi == DivModBig(Tail(x), d)
             cur == Trim(<<x[1]>> \o hi.r)
             q == QuotLimb(cur, d, 0, LimbBits - 1)
         IN  [q |-> <<q>> \o hi.q, r |-> Sub(cur, MulSmall(d, q))]

\* a / b for two floats, b # 0: the double nearest to the quotient (line 377).
float_div(a, b) ==
    LET k == MantissaBits + 3
        d == DivModBig(ShiftLeft(a.m, k), b.m)
    IN  Double(Trim(d.q), a.e - b.e - k, Len(d.r) > 0)

(***************************************************************************)
(* Python values, str(float) and float(str).  A str is a sequence of       *)
(* characters.                                                             *)
(***************************************************************************)
PyFloat(d) == [type |-> "float", m |-> d.m, e |-> d.e]
PyStr(text) == [type |-> "str", text |-> text]
PyInt(n) == [type |-> "int", n |-> n]
PyNone == [type |-> "NoneType"]
PyRaise(kind) == [type |-> kind]

DigitChars == <<"0", "1", "2", "3", "4", "5", "6", "7", "8", "9">>
DigitChar(d) == DigitChars[d + 1]
IsDigit(c) == \E d \in 0..9 : DigitChars[d + 1] = c
DigitOf(c) == CHOOSE d \in 0..9 : DigitChars[d + 1] = c

\* The decimal digits of an int, highest first; none for zero.
RECURSIVE Digits(_)
Digits(x) ==
    IF Len(x) = 0 THEN <<>>
    ELSE LET d == DivSmall(x, 10000)
             r == d.r
         IN  IF Len(d.q) = 0
             THEN (IF r >= 1000 THEN <<r \div 1000>> ELSE <<>>)
                  \o (IF r >= 100 THEN <<(r \div 100) % 10>> ELSE <<>>)
                  \o (IF r >= 10 THEN <<(r \div 10) % 10>> ELSE <<>>)
                  \o <<r % 10>>
             ELSE Digits(d.q) \o <<r \div 1000, (r \div 100) % 10, (r \div 10) % 10, r % 10>>

\* The int written by a sequence of digits.
RECURSIVE FromDigits(_)
FromDigits(ds) ==
    IF Len(ds) = 0 THEN <<>>
    ELSE MulAdd(FromDigits(SubSeq(ds, 1, Len(ds) - 1)), 10, ds[Len(ds)])

\* Seventeen significant digits tell any two doubles apart.
ReprDigits == 17

RECURSIVE StripZeros(_)
StripZeros(ds) ==
    IF Len(ds) > 0 /\ ds[Len(ds)] = 0 THEN StripZeros(SubSeq(ds, 1, Len(ds) - 1)) ELSE ds

Zeros(n) == [i \in 1..n |-> "0"]
Chars(ds) == [i \in 1..Len(ds) |-> DigitChar(ds[i])]

\* The leading decimal digits of the double a > 0, at least ReprDigits of them:
\* a = 0.d1d2... * 10^decpt, and `inexact` says that nonzero digits follow.
DecimalDigits(a) ==
    LET j == IF a.e + MantissaBits <= 0
             THEN ReprDigits + 1 + ((-(a.e + MantissaBits - 1)) * 31) \div 100
             ELSE ReprDigits
        num == MulPow10(a.m, j)
        ds == Digits(IF a.e >= 0 THEN ShiftLeft(num, a.e) ELSE ShiftRight(num, -a.e))
    IN  [ds |-> ds, decpt |-> Len(ds) - j,
         inexact |-> a.e < 0 /\ LowBits(num, -a.e) # <<>>]

\* float('<x>e<p>') is the double a.
Reads(a, x, p) == DecimalToDouble(x, p) = [m |-> a.m, e |-> a.e]

\* Whether the first k digits of `all` (the digits of a), as they are and with
\* one added in the last place, read back as a.
Fits(a, all, k) ==
    LET lo == FromDigits(SubSeq(all.ds, 1, k)) IN
    IF ~all.inexact /\ Len(StripZeros(SubSeq(all.ds, k + 1, Len(all.ds)))) = 0
    THEN <<TRUE, FALSE>>
    ELSE <<Reads(a, lo, all.decpt - k), Reads(a, AddSmall(lo, 1), all.decpt - k)>>

\* The least number of digits that reads back.
FirstFit(ok) ==
    CHOOSE i \in DOMAIN ok :
        /\ ok[i][1] \/ ok[i][2]
        /\ \A j \in 1..(i - 1) : ~ok[j][1] /\ ~ok[j][2]

\* Whether the digits after the k-th put a nearer to the k-digit number above
\* it (a tie goes to the even digit).
NearerAbove(all, k) ==
    /\ k < Len(all.ds)
    /\ \/ all.ds[k + 1] > 5
       \/ /\ all.ds[k + 1] = 5
          /\ \/ Len(StripZeros(SubSeq(all.ds, k + 2, Len(all.ds)))) > 0
             \/ all.inexact
             \/ all.ds[k] % 2 = 1

\* The k digits above, as [ds, decpt].
Above(all, k, hds) == [ds |-> hds, decpt |-> all.decpt + Len(hds) - k]

\* Of the two k-digit neighbours of a the nearer one is taken when both read back.
Neighbour(all, ok, k) ==
    IF ok[k][2] /\ (NearerAbove(all, k) \/ ~ok[k][1])
    THEN Above(all, k, Digits(AddSmall(FromDigits(SubSeq(all.ds, 1, k)), 1)))
    ELSE [ds |-> SubSeq(all.ds, 1, k), decpt |-> all.decpt]

ShortestAmong(all, ok) == Neighbour(all, ok, FirstFit(ok))

ShortestOf(a, all) ==
    ShortestAmong(all, [k \in 1..Min(Len(all.ds), ReprDigits) |-> Fits(a, all, k)])

\* The shortest digit string that float() reads back as the double a, as
\* [ds, decpt].
Shortest(a) == ShortestOf(a, DecimalDigits(a))

\* The exponent of the exponent notation: at least two digits.
ExponentChars(exp) == (IF Len(exp) < 2 THEN Zeros(2 - Len(exp)) ELSE <<>>) \o Chars(exp)

\* The digits ds with the point after the decpt-th, in positional notation for
\* 1e-4 <= a < 1e16 and in exponent notation otherwise.
Notation(ds, decpt) ==
    IF decpt > 16 \/ decpt <= -4
    THEN <<DigitChar(ds[1])>>
         \o (IF Len(ds) > 1 THEN <<".">> \o Chars(SubSeq(ds, 2, Len(ds))) ELSE <<>>)
         \o <<"e", IF decpt >= 1 THEN "+" ELSE "-">>
         \o ExponentChars(Digits(Big(IF decpt >= 1 THEN decpt - 1 ELSE 1 - decpt)))
    ELSE IF decpt <= 0 THEN <<"0", ".">> \o Zeros(-decpt) \o Chars(ds)
    ELSE IF decpt < Len(ds)
         THEN Chars(SubSeq(ds, 1, decpt)) \o <<".">> \o Chars(SubSeq(ds, decpt + 1, Len(ds)))
    ELSE Chars(ds) \o Zeros(decpt - Len(ds)) \o <<".", "0">>

ShortestNotation(s) == Notation(StripZeros(s.ds), s.decpt)

\* repr of a float: its shortest digits.
float_repr(a) ==
    IF Len(a.m) = 0 THEN <<"0", ".", "0">> ELSE ShortestNotation(Shortest(a))

\* str(x) for the numbers.
py_str(x) == IF x.type = "float" THEN float_repr(x)
          ELSE IF Len(x.n) = 0 THEN <<"0">> ELSE Chars(Digits(x.n))

\* The first place of character c in text, or Len(text) + 1.
RECURSIVE Find(_, _, _)
Find(text, c, i) ==
    IF i > Len(text) \/ text[i] = c THEN i ELSE Find(text, c, i + 1)

AllDigits(text) == \A i \in 1..Len(text) : IsDigit(text[i])
DigitsOf(text) == [i \in 1..Len(text) |-> DigitOf(text[i])]

\* float(text) for an unsigned decimal literal: digits, an optional fraction, an
\* optional exponent; any other text is a ValueError.
float(text) ==
    LET ePos == Min(Find(text, "e", 1), Find(text, "E", 1))
        mant == SubSeq(text, 1, ePos - 1)
        expo == SubSeq(text, ePos + 1, Len(text))
        signed == Len(expo) > 0 /\ expo[1] \in {"+", "-"}
        edigits == IF signed THEN Tail(expo) ELSE expo
        dot == Find(mant, ".", 1)
        int == SubSeq(mant, 1, dot - 1)
        frac == SubSeq(mant, dot + 1, Len(mant))
        wellformed == /\ AllDigits(int) /\ AllDigits(frac)
                      /\ Len(int) + Len(frac) > 0
                      /\ ePos <= Len(text) => (AllDigits(edigits) /\ Len(edigits) > 0)
        RECURSIVE Small(_)
        Small(ds) == IF Len(ds) = 0 THEN 0
                     ELSE 10 * Small(SubSeq(ds, 1, Len(ds) - 1)) + ds[Len(ds)]
        e10 == IF ePos > Len(text) THEN 0
               ELSE IF signed /\ expo[1] = "-" THEN -Small(DigitsOf(edigits))
               ELSE Small(DigitsOf(edigits))
    IN  IF ~wellformed THEN PyRaise("ValueError")
        ELSE PyFloat(DecimalToDouble(FromDigits(DigitsOf(int \o frac)), e10 - Len(frac)))

\* Lines 71-72, 85-86, 99-100: a final ".0" is cut off.
StripPointZero(res) ==
    IF Len(res) >= 2 /\ SubSeq(res, Len(res) - 1, Len(res)) = <<".", "0">>
    THEN SubSeq(res, 1, Len(res) - 2) ELSE res

(***************************************************************************)
(* float_to_str_floor, float_to_str_ceil, float_to_str_round (lines 61-101) *)
(* for precision >= 0.                                                      *)
(***************************************************************************)
DefaultPrecision == 8

\* math.floor, math.ceil or round, by the function called.
ToInt(kind, scaled) ==
    CASE kind = "floor" -> math_floor(scaled)
      [] kind = "ceil" -> math_ceil(scaled)
      [] kind = "round" -> round(scaled)

\* str(n / (10 ** precision)) without a final ".0".
Quotient(n, precision) ==
    PyStr(StripPointZero(py_str(PyFloat(DecimalToDouble(n, -precision)))))

\* Lines 69-73, 83-87, 97-101 for an amount a that is no str.
FloatToStrOf(kind, a, precision) ==
    IF a.type = "float"
    THEN Quotient(ToInt(kind, float_times_pow10(a, precision)), precision)
    ELSE IF a.type = "int"
    THEN Quotient(MulPow10(a.n, precision), precision)
    ELSE IF a.type = "ValueError" THEN a
    ELSE PyRaise("TypeError")

\* str(<to_int>(amount * (10 ** precision)) / (10 ** precision)) without a
\* final ".0"; kind says which of the three functions it is.  A str amount
\* is read by float() first (lines 67-68).
FloatToStr(kind, amount, precision) ==
    IF amount.type = "str"
    THEN FloatToStrOf(kind, float(amount.text), precision)
    ELSE FloatToStrOf(kind, amount, precision)

float_to_str_floor(amount, precision) == FloatToStr("floor", amount, precision)
float_to_str_ceil(amount, precision) == FloatToStr("ceil", amount, precision)
float_to_str_round(amount, precision) == FloatToStr("round", amount, precision)

(***************************************************************************)
(* The helpers of the client (lines 54-118).                               *)
(***************************************************************************)
get_timestamp == ToString(clock)

RECURSIVE JoinPairs(_)
JoinPairs(d) ==
    IF d = <<>> THEN <<>>
    ELSE <<Head(d)[1], "=", Head(d)[2], "&">> \o JoinPairs(Tail(d))

\* The last "&" left in place.
make_query_stringKeepsLast(d) == JoinPairs(d)

make_query_string(d) ==
    IF Len(d) = 0 THEN <<>>
    ELSE LET res == JoinPairs(d) IN SubSeq(res, 1, Len(res) - 1)

\* hmac.new(key, msg, sha256).hexdigest(): a keyed hash, taken as collision free.
Hmac(key, msg) == [key |-> key, msg |-> msg]

\* r.json() on a body that is a flat JSON object: "{" k ":" v ("," k ":" v)* "}"
JsonDecode(text) == [i \in 1..((Len(text) - 1) \div 4) |-> <<text[4 * i - 2], text[4 * i]>>]

(***************************************************************************)
(* The exchange's responses and the callers' inputs.                       *)
(***************************************************************************)
KeyText == <<"{", "listenKey", ":", "k1", "}">>
OrderText == <<"{", "orderId", ":", "7", "}">>
ErrText == <<"{", "code", ":", "-1021", ",", "msg", ":", "late", "}">>
\* An error body longer than TraceTextLimit units.
LongText == <<"{", "code", ":", "-1", ",", "msg", ":">>
            \o [i \in 1..TraceTextLimit |-> "x"] \o <<"}">>

Response(status_code, text) == [status_code |-> status_code, text |-> text]
Responses == {Response(200, KeyText), Response(200, OrderText), Response(201, OrderText),
              Response(400, ErrText), Response(500, LongText)}

\* The body of GET ticker/price: the price is a JSON string (its characters).
PriceText(price) == <<"{", "symbol", ":", "BTCUSDT", ",", "price", ":", price, "}">>
Prices == {<<"2", "0", "0", "0", "0", ".", "0", "0">>, <<"0", ".", "0", "0">>}
PricePaths == {"/api/v3/ticker/price", "/fapi/v1/ticker/price"}
PriceResponses ==
    {Response(200, PriceText(p)) : p \in Prices}
    \cup {Response(200, ErrText), Response(500, LongText)}

\* The body of GET exchangeInfo: under "symbols" a list of objects, each a mapping.
SymbolInfo(symbol, base, quantity) ==
    << <<"symbol", symbol>>, <<"baseAssetPrecision", base>>, <<"quantityPrecision", quantity>> >>
InfoText(symbols) == <<"{", "symbols", ":", symbols, "}">>
InfoLists == {<<SymbolInfo("ETHBTC", 8, 3), SymbolInfo("BTCUSDT", 8, 3)>>,
              <<SymbolInfo("ETHBTC", 8, 3)>>}
InfoPaths == {"/api/v3/exchangeInfo", "/fapi/v1/exchangeInfo"}
InfoResponses == {Response(200, InfoText(l)) : l \in InfoLists} \cup {Response(400, ErrText)}

\* What the exchange may answer to a request for path_url.
ResponsesTo(path_url) ==
    IF path_url \in PricePaths THEN PriceResponses
    ELSE IF path_url \in InfoPaths THEN InfoResponses
    ELSE Responses

DictData(ref) == [kind |-> "dict", ref |-> ref, str |-> <<>>]
StrData(str) == [kind |-> "str", ref |-> "", str |-> str]
OtherData == [kind |-> "other", ref |-> "", str |-> <<>>]

\* What a caller's mapping may hold when the call is made.
DictContents == {<<>>,
                 << <<"symbol", "BTCUSDT">> >>,
                 << <<"timestamp", "old">>, <<"symbol", "BTCUSDT">> >>,
                 << <<"symbol", "BTCUSDT">>, <<"side", "BUY">> >>}

Methods == {"GET", "post", "Put", "delete"}
Modes == {"MAIN", "MARGIN", "ISOLATED", "FUTURE", "BOGUS", "main"}
Symbols == {None, "btcusdt"}

RequestCall(method, data, test, send_signature, retry_count, auto_timestamp) ==
    [op |-> "request", area_url |-> "api", path_url |-> "/api/v3/order",
     method |-> method, data |-> data, test |-> test,
     send_signature |-> send_signature, retry_count |-> retry_count,
     auto_timestamp |-> auto_timestamp, mode |-> "", key |-> "", symbol |-> None,
     retry_interval |-> DefaultRetryInterval]

ListenKeyCall(op, mode, key, symbol) ==
    [op |-> op, area_url |-> "", path_url |-> "", method |-> "", data |-> OtherData,
     test |-> FALSE, send_signature |-> FALSE, retry_count |-> 0,
     auto_timestamp |-> FALSE, mode |-> mode, key |-> key, symbol |-> symbol,
     retry_interval |-> DefaultRetryInterval]

TradeCall(symbol, mode, amount, side, test, volume_mode) ==
    [op |-> "trade_market", symbol |-> symbol, mode |-> mode, amount |-> amount,
     side |-> side, test |-> test, volume_mode |-> volume_mode]

TransferCall(mode, asset_symbol, amount) ==
    [op |-> "transfer_asset", mode |-> mode, asset_symbol |-> asset_symbol,
     amount |-> amount]

NoCall == ListenKeyCall("none", "", "", None)

RequestCalls ==
    {RequestCall(m, d, ts, sg, n, au) :
        m \in Methods,
        d \in {DictData("d1"), StrData(<<"symbol", "=", "BTCUSDT">>), OtherData},
        ts \in BOOLEAN, sg \in BOOLEAN, n \in -1..MaxRetry, au \in BOOLEAN}

ListenKeyCalls ==
    {ListenKeyCall("create_listen_key", m, "", sy) : m \in Modes, sy \in Symbols}
    \cup {ListenKeyCall("overtime_listen_key", m, "k1", sy) : m \in Modes, sy \in Symbols}

(***************************************************************************)
(* Client.request: one pass of the loop body up to the network call.       *)
(***************************************************************************)
\* The locals of request() as the call binds them (lines 133-134).
Frame(area_url, path_url, method, data, test, send_signature, retry_count, auto_timestamp) ==
    [area_url |-> area_url, path_url |-> path_url, method |-> method, data |-> data,
     test |-> test, send_signature |-> send_signature, retry_count |-> retry_count,
     auto_timestamp |-> auto_timestamp, retry_interval |-> DefaultRetryInterval]

NoFrame == Frame("", "", "", OtherData, FALSE, FALSE, 0, FALSE)

\* The signature appended whatever send_signature says.
FormatUrlAlwaysSigned(f, str_data, signature) ==
    [host |-> <<f.area_url, base_url>>,
     path |-> <<f.path_url, IF f.test THEN "/test" ELSE "">>,
     query |-> str_data,
     signature |-> <<signature>>]

\* Lines 157-160 and 173-178: the URL that is sent.
FormatUrl(f, str_data, signature) ==
    [host |-> <<f.area_url, base_url>>,
     path |-> <<f.path_url, IF f.test THEN "/test" ELSE "">>,
     query |-> str_data,
     signature |-> IF f.send_signature THEN <<signature>> ELSE <<>>]

\* The signature taken before the timestamp is refreshed.
PrepareSignsEarly(f, d, now) ==
    LET d2 == IF f.data.kind = "dict" /\ f.auto_timestamp
              THEN SetItem(d, "timestamp", now) ELSE d
        str_data == IF f.data.kind = "dict" THEN make_query_string(d2) ELSE f.data.str
        signature == Hmac(private_key,
                          IF f.data.kind = "dict" THEN make_query_string(d) ELSE f.data.str)
    IN  [dict |-> d2, str_data |-> str_data, signature |-> signature,
         url |-> FormatUrl(f, str_data, signature)]

\* The timestamp refreshed whatever auto_timestamp says.
PrepareAlwaysStamps(f, d, now) ==
    LET d2 == IF f.data.kind = "dict" THEN SetItem(d, "timestamp", now) ELSE d
        str_data == IF f.data.kind = "dict" THEN make_query_string(d2) ELSE f.data.str
        signature == Hmac(private_key, str_data)
    IN  [dict |-> d2, str_data |-> str_data, signature |-> signature,
         url |-> FormatUrl(f, str_data, signature)]

\* Lines 161-178 for data that is a dict (contents d) or a str: the dict as the
\* pass leaves it, the query string, the signature and the URL.
Prepare(f, d, now) ==
    LET d2 == IF f.data.kind = "dict" /\ f.auto_timestamp
              THEN SetItem(d, "timestamp", now) ELSE d
        str_data == IF f.data.kind = "dict" THEN make_query_string(d2) ELSE f.data.str
        signature == Hmac(private_key, str_data)
    IN  [dict |-> d2, str_data |-> str_data, signature |-> signature,
         url |-> FormatUrl(f, str_data, signature)]

NoRet == [kind |-> "none", status_code |-> 0, response |-> <<>>, value |-> <<>>]
Raised(kind, status_code, response) ==
    [kind |-> kind, status_code |-> status_code, response |-> response, value |-> <<>>]
Returned(value) ==
    [kind |-> "return", status_code |-> 0, response |-> <<>>, value |-> value]

\* DELETE let through.
ValidMethodLoose(m) == m = "POST" \/ m = "GET" \/ m = "PUT" \/ m = "DELETE"

\* Line 152.
ValidMethod(m) == m = "POST" \/ m = "GET" \/ m = "PUT"

\* time.sleep in place of asyncio.sleep: the wait keeps the event loop.
YieldsOnNetworkOnly(p) == p = "inflight"

\* Both awaits of request() (lines 195-196 and 235) hand the event loop back.
Yields(p) == p \in {"inflight", "sleeping"}

\* The event loop runs task t when no other coroutine holds it.
LoopFree(t) == \A u \in Tasks \ {t} : pc[u] \in {"inflight", "sleeping"} => Yields(pc[u])

\* Lines 150-196: task t runs the loop body with locals f on heap h, and either
\* raises before the network call or hands the URL to the executor and awaits.
\* A request() that starts has not returned: ret[t] is NoRet until it ends.
Attempt(t, f, h) ==
    LET m == Upper(f.method)
        g == [f EXCEPT !.method = m]
    IN  /\ frame' = [frame EXCEPT ![t] = g]
        /\ IF ~ValidMethod(m) \/ g.data.kind = "other"
           THEN /\ pc' = [pc EXCEPT ![t] = "raised"]
                /\ ret' = [ret EXCEPT ![t] = Raised("Exception", 0, <<>>)]
                /\ result' = [result EXCEPT ![t] = Raised("Exception", 0, <<>>)]
                /\ heap' = h
                /\ sent' = sent
           ELSE LET d == IF g.data.kind = "dict" THEN h[g.data.ref] ELSE <<>>
                    p == Prepare(g, d, get_timestamp)
                IN  /\ heap' = IF g.data.kind = "dict"
                               THEN [h EXCEPT ![g.data.ref] = p.dict] ELSE h
                    /\ sent' = [sent EXCEPT ![t] = Append(@,
                                   [method |-> m, url |-> p.url, at |-> clock])]
                    /\ pc' = [pc EXCEPT ![t] = "inflight"]
                    /\ ret' = [ret EXCEPT ![t] = NoRet]
                    /\ UNCHANGED result

\* The pass made when the task starts or a wait ends: nothing has arrived.
Iteration(t, f, h) ==
    /\ Attempt(t, f, h)
    /\ UNCHANGED <<tunables, clock, call, recv, console, trace_file, slept, opened>>

\* The caller's task starts request(...).
Request(t) ==
    /\ pc[t] = "start"
    /\ call[t].op = "request"
    /\ LoopFree(t)
    /\ LET c == call[t] IN
       Iteration(t, [Frame(c.area_url, c.path_url, c.method, c.data, c.test,
                           c.send_signature, c.retry_count, c.auto_timestamp)
                        EXCEPT !.retry_interval = c.retry_interval], heap)

\* Line 235 returns: the loop body runs again.
Retry(t) ==
    /\ pc[t] = "sleeping"
    /\ LoopFree(t)
    /\ Iteration(t, frame[t], heap)

(***************************************************************************)
(* Client.request: what is printed and traced, and the tests of the        *)
(* response (lines 198-235).                                               *)
(***************************************************************************)
Block(url, status_code, text) == [url |-> url, status_code |-> status_code, text |-> text]

\* Lines 198-210 and 221-226: what print() writes for one response.
Printed(url, r) ==
    (IF ~only_print_error
     THEN IF print_simple_trace
          THEN <<Block(url, r.status_code, Take(r.text, TraceTextLimit))>>
          ELSE <<Block(url, r.status_code, r.text)>>
     ELSE <<>>)
    \o (IF r.status_code # 200 /\ only_print_error
        THEN <<Block(url, r.status_code, r.text)>>
        ELSE <<>>)

\* Only the failures traced.
TracedFailuresOnly(url, r) ==
    IF trace_to_file /\ r.status_code # 200
    THEN <<Block(url, r.status_code, r.text)>> ELSE <<>>

\* Lines 211-219: what is appended to requests_trace.txt for one response.
Traced(url, r) ==
    IF trace_to_file THEN <<Block(url, r.status_code, r.text)>> ELSE <<>>

\* Every 2xx status taken as success.
SucceededAny2xx(status_code) == status_code >= 200 /\ status_code < 300

\* Every status below 500 taken as success.
SucceededLoose(status_code) == status_code < 500

\* Line 220.
Succeeded(status_code) == status_code = 200

\* The budget counted down to -2.
RetriesRemainBelowZero(retry_count) == retry_count > -2

\* The wait made twice.
WaitsTwice(f) == <<f.retry_interval, f.retry_interval>>

\* Line 235: the waits between a failed attempt and the next one.
Waits(f) == <<f.retry_interval>>

\* One retry too many.
RetriesRemainOffByOne(retry_count) == retry_count >= 0

\* Line 227.
RetriesRemain(retry_count) == retry_count > 0

\* Line 232, and what the operation that awaited request() does with the value
\* (lines 248-249, 261-262, 423; overtime_listen_key and transfer_asset return
\* nothing).
Continue(op, json) ==
    CASE op = "create_listen_key" ->
            IF HasKey(json, "listenKey")
            THEN Returned(GetItem(json, "listenKey"))
            ELSE Raised("KeyError", 0, <<>>)
      [] op = "overtime_listen_key" -> Returned(None)
      [] op = "transfer_asset" -> Returned(None)
      [] OTHER -> Returned(json)

\* The operation ends: r is how its last request() ended, res what its caller gets.
Finish(t, r, res) ==
    /\ ret' = [ret EXCEPT ![t] = r]
    /\ result' = [result EXCEPT ![t] = res]
    /\ pc' = [pc EXCEPT ![t] = IF res.kind = "return" THEN "returned" ELSE "raised"]
    /\ UNCHANGED <<frame, heap, sent>>

(***************************************************************************)
(* trade_market after its mode and side checks (lines 372-423), with       *)
(* get_latest_price (lines 647-671) and get_symbol_precision (299-340).    *)
(***************************************************************************)
\* Lines 416-421: <<area_url, path_url>> of the order.
OrderEndpoint(mode) ==
    IF mode = "MAIN" THEN <<"api", "/api/v3/order">>
    ELSE IF mode = "FUTURE" THEN <<"fapi", "/fapi/v1/order">>
    ELSE <<"api", "/sapi/v1/margin/order">>

\* Lines 397-413: the mapping of the order.
OrderData(symbol, mode, side, amount, volume_mode, now) ==
    LET data == << <<"symbol", symbol>>, <<"side", side>>, <<"type", "MARKET">>,
                   <<"timestamp", now>> >>
        sized == IF volume_mode /\ mode # "FUTURE"
                 THEN SetItem(data, "quoteOrderQty", amount)
                 ELSE SetItem(data, "quantity", amount)
    IN  IF mode = "MARGIN" THEN SetItem(sized, "isIsolated", "FALSE")
        ELSE IF mode = "ISOLATED" THEN SetItem(sized, "isIsolated", "TRUE")
        ELSE sized

\* Lines 397-421: the order is built and request(..., 'POST', data, test=test) awaited.
PlaceOrder(t, amount) ==
    LET c == call[t]
        mode == Upper(c.mode)
        ep == OrderEndpoint(mode)
    IN  Attempt(t,
                Frame(ep[1], ep[2], "POST", DictData(LitDict(t)), c.test, TRUE,
                      DefaultRetryCount, FALSE),
                [heap EXCEPT ![LitDict(t)] =
                    OrderData(Upper(c.symbol), mode, Upper(c.side), amount.text,
                              c.volume_mode, get_timestamp)])

\* Lines 384-387 with 317-319 and 329-330: the exchangeInfo asked for.
InfoEndpoint(mode) ==
    IF mode = "MAIN" THEN <<"api", "/api/v3/exchangeInfo">>
    ELSE <<"fapi", "/fapi/v1/exchangeInfo">>

\* Lines 380-395: the amount becomes a str, by its type; r is how the last
\* request() of the operation ended.
Quantify(t, amount, r) ==
    LET c == call[t]
        ep == InfoEndpoint(Upper(c.mode))
    IN  IF amount.type = "float"
        THEN IF ~c.volume_mode
             THEN Attempt(t,
                          Frame(ep[1], ep[2], "GET", DictData(LitDict(t)), FALSE, FALSE,
                                DefaultRetryCount, FALSE),
                          [heap EXCEPT ![LitDict(t)] = <<>>])
             ELSE PlaceOrder(t, float_to_str_floor(amount, DefaultPrecision))
        ELSE IF amount.type = "int" THEN PlaceOrder(t, PyStr(py_str(amount)))
        ELSE IF amount.type = "str" THEN PlaceOrder(t, amount)
        ELSE Finish(t, r, Raised("Exception", 0, <<>>))

\* float(amount) of line 377.
ToFloat(amount) ==
    IF amount.type = "float" THEN amount
    ELSE IF amount.type = "int" THEN PyFloat(DecimalToDouble(amount.n, 0))
    ELSE IF amount.type = "str" THEN float(amount.text)
    ELSE PyRaise("TypeError")

\* Lines 668-671 and 377: the price has arrived.
AfterPrice(t, json) ==
    LET r == Returned(json) IN
    IF ~HasKey(json, "price") THEN Finish(t, r, Raised("KeyError", 0, <<>>))
    ELSE LET latest_price == float(GetItem(json, "price"))
             amount == ToFloat(call[t].amount)
         IN  IF latest_price.type # "float"
             THEN Finish(t, r, Raised(latest_price.type, 0, <<>>))
             ELSE IF amount.type # "float"
             THEN Finish(t, r, Raised(amount.type, 0, <<>>))
             ELSE IF Len(latest_price.m) = 0
             THEN Finish(t, r, Raised("ZeroDivisionError", 0, <<>>))
             ELSE Quantify(t, PyFloat(float_div(amount, latest_price)), r)

\* Lines 320-327 and 331-337, then 388: the exchangeInfo has arrived.  The
\* precisions are JSON integers, which int() leaves as they are.
AfterPrecision(t, json) ==
    LET r == Returned(json)
        symbol == Upper(call[t].symbol)
        field == IF frame[t].path_url = "/api/v3/exchangeInfo"
                 THEN "baseAssetPrecision" ELSE "quantityPrecision"
    IN  IF ~HasKey(json, "symbols") THEN Finish(t, r, Raised("KeyError", 0, <<>>))
        ELSE LET info == GetItem(json, "symbols")
                 hits == {i \in 1..Len(info) : GetItem(info[i], "symbol") = symbol}
             IN  IF hits = {} THEN Finish(t, r, Raised("Exception", 0, <<>>))
                 ELSE LET e == info[CHOOSE i \in hits : \A j \in hits : i <= j]
                      IN  PlaceOrder(t, float_to_str_floor(call[t].amount,
                                                           GetItem(e, field)))

\* request() returned json to the operation that awaited it.
Resume(t, json) ==
    IF call[t].op = "trade_market" /\ frame[t].path_url \in PricePaths
    THEN AfterPrice(t, json)
    ELSE IF call[t].op = "trade_market" /\ frame[t].path_url \in InfoPaths
    THEN AfterPrecision(t, json)
    ELSE Finish(t, Returned(json), Continue(call[t].op, json))

(***************************************************************************)
(* Client.request: the response arrives (lines 195-235).                   *)
(***************************************************************************)
Receive(t) ==
    /\ pc[t] = "inflight"
    /\ LoopFree(t)
    /\ \E r \in ResponsesTo(frame[t].path_url) :
        LET url == sent[t][Len(sent[t])].url IN
        /\ recv' = [recv EXCEPT ![t] = Append(@, r)]
        /\ console' = console \o Printed(url, r)
        /\ trace_file' = trace_file \o Traced(url, r)
        /\ IF ~Succeeded(r.status_code)
           THEN IF RetriesRemain(frame[t].retry_count)
                THEN /\ frame' = [frame EXCEPT ![t].retry_count = @ - 1]
                     /\ slept' = [slept EXCEPT ![t] = @ \o Waits(frame[t])]
                     /\ pc' = [pc EXCEPT ![t] = "sleeping"]
                     /\ UNCHANGED <<ret, result, heap, sent>>
                ELSE LET e == Raised("BinanceException", r.status_code, r.text) IN
                     /\ Finish(t, e, e)
                     /\ UNCHANGED slept
           ELSE /\ Resume(t, JsonDecode(r.text))
                /\ UNCHANGED slept
    /\ UNCHANGED <<tunables, clock, call, opened>>

(***************************************************************************)
(* create_listen_key and overtime_listen_key (lines 237-297).              *)
(***************************************************************************)
\* The mode compared after upper-casing it, as get_symbol_precision does.
ValidModeIgnoringCase(mode) == Upper(mode) \in {"MAIN", "FUTURE", "MARGIN", "ISOLATED"}

\* Lines 244 and 276.
ValidMode(mode) ==
    ~(mode # "MAIN" /\ mode # "FUTURE" /\ mode # "MARGIN" /\ mode # "ISOLATED")

\* The symbol looked for under the wrong mode.
SymbolMissingWrongMode(mode, symbol) == mode = "MARGIN" /\ symbol = None

\* Lines 254-256 and 286-288.
SymbolMissing(mode, symbol) == mode = "ISOLATED" /\ symbol = None

\* The if/elif chain of both operations: <<area_url, path_url>>.
Endpoint(mode) ==
    IF mode = "MAIN" THEN <<"api", "/api/v3/userDataStream">>
    ELSE IF mode = "MARGIN" THEN <<"api", "/sapi/v1/userDataStream">>
    ELSE IF mode = "ISOLATED" THEN <<"api", "/sapi/v1/userDataStream/isolated">>
    ELSE <<"fapi", "/fapi/v1/listenKey">>

\* The dict literal create_listen_key passes to request().
CreateData(mode, symbol) ==
    IF mode = "ISOLATED" THEN << <<"symbol", Upper(symbol)>> >> ELSE <<>>

\* The symbol left out.
OvertimeDataNoSymbol(mode, key, symbol) == << <<"listenKey", key>> >>

\* The dict literal overtime_listen_key passes to request().
OvertimeData(mode, key, symbol) ==
    IF mode = "ISOLATED"
    THEN << <<"listenKey", key>>, <<"symbol", Upper(symbol)>> >>
    ELSE << <<"listenKey", key>> >>

\* The operation raises before it calls request().
Reject(t) ==
    /\ pc' = [pc EXCEPT ![t] = "raised"]
    /\ result' = [result EXCEPT ![t] = Raised("Exception", 0, <<>>)]
    /\ UNCHANGED <<tunables, clock, heap, call, frame, sent, recv, ret, console,
                   trace_file, slept, opened>>

\* The operation calls request(area, path, method, <literal>, send_signature=False):
\* awaiting a coroutine runs it at once, up to its first real suspension.
ListenKeyRequest(t, method, literal) ==
    LET c == call[t]
        ep == Endpoint(c.mode)
    IN  Iteration(t,
                  Frame(ep[1], ep[2], method, DictData(LitDict(t)), FALSE, FALSE,
                        DefaultRetryCount, FALSE),
                  [heap EXCEPT ![LitDict(t)] = literal])

CreateListenKey(t) ==
    /\ pc[t] = "start"
    /\ call[t].op = "create_listen_key"
    /\ LoopFree(t)
    /\ LET c == call[t] IN
       IF ~ValidMode(c.mode) \/ SymbolMissing(c.mode, c.symbol)
       THEN Reject(t)
       ELSE ListenKeyRequest(t, "POST", CreateData(c.mode, c.symbol))

OvertimeListenKey(t) ==
    /\ pc[t] = "start"
    /\ call[t].op = "overtime_listen_key"
    /\ LoopFree(t)
    /\ LET c == call[t] IN
       IF ~ValidMode(c.mode) \/ SymbolMissing(c.mode, c.symbol)
       THEN Reject(t)
       ELSE ListenKeyRequest(t, "PUT", OvertimeData(c.mode, c.key, c.symbol))

(***************************************************************************)
(* trade_market (lines 342-423) and transfer_asset (lines 596-645) start.  *)
(***************************************************************************)
\* Line 369.
ValidSide(side) == ~(side # "BUY" /\ side # "SELL")

\* Lines 359-395: the checks, then the first request the operation awaits:
\* the price (get_latest_price), the exchangeInfo or the order.
TradeMarket(t) ==
    /\ pc[t] = "start"
    /\ call[t].op = "trade_market"
    /\ LoopFree(t)
    /\ LET c == call[t]
           symbol == Upper(c.symbol)
           mode == Upper(c.mode)
           side == Upper(c.side)
       IN  IF ~ValidMode(mode) \/ ~ValidSide(side)
           THEN Finish(t, NoRet, Raised("Exception", 0, <<>>))
           ELSE IF mode = "FUTURE" /\ c.volume_mode
           THEN Attempt(t,
                        Frame("fapi", "/fapi/v1/ticker/price", "GET", DictData(LitDict(t)),
                              FALSE, FALSE, DefaultRetryCount, FALSE),
                        [heap EXCEPT ![LitDict(t)] = << <<"symbol", symbol>> >>])
           ELSE Quantify(t, c.amount, NoRet)
    /\ UNCHANGED <<tunables, clock, call, recv, console, trace_file, slept, opened>>

\* Lines 627-645: the amount becomes a str and the transfer is requested.
TransferAsset(t) ==
    /\ pc[t] = "start"
    /\ call[t].op = "transfer_asset"
    /\ LoopFree(t)
    /\ LET c == call[t]
           mode == Upper(c.mode)
           asset_symbol == Upper(c.asset_symbol)
           amount == IF c.amount.type = "float"
                     THEN float_to_str_round(c.amount, DefaultPrecision)
                     ELSE IF c.amount.type = "int" THEN PyStr(py_str(c.amount))
                     ELSE c.amount
       IN  IF c.amount.type \notin {"float", "int", "str"}
           THEN Finish(t, NoRet, Raised("Exception", 0, <<>>))
           ELSE Attempt(t,
                        Frame("api", "/sapi/v1/asset/transfer", "POST",
                              DictData(LitDict(t)), FALSE, TRUE, DefaultRetryCount, FALSE),
                        [heap EXCEPT ![LitDict(t)] =
                            << <<"type", mode>>, <<"asset", asset_symbol>>,
                               <<"amount", amount.text>>,
                               <<"timestamp", get_timestamp>> >>])
    /\ UNCHANGED <<tunables, clock, call, recv, console, trace_file, slept, opened>>

(***************************************************************************)
(* Client.connect_websocket (lines 715-730).                               *)
(***************************************************************************)
Streams == {"btcusdt@trade", "k1"}

WebsocketCall(mode, stream_name) ==
    [op |-> "connect_websocket", mode |-> mode, stream_name |-> stream_name]

WebsocketCalls == {WebsocketCall(m, n) : m \in Modes, n \in Streams}

\* Every mode let through to the else branch.
ValidStreamModeAny(mode) == TRUE

\* Line 721.
ValidStreamMode(mode) == ~(mode # "MAIN" /\ mode # "FUTURE")

\* Lines 724-727: the two format strings, filled in.
StreamUrl(mode, stream_name) ==
    IF mode = "MAIN"
    THEN <<"wss://stream.", base_url, ":9443/ws/", stream_name>>
    ELSE <<"wss://fstream.", base_url, "/ws/", stream_name>>

\* Lines 721-727: the mode check, then websockets.connect(url) is awaited.
ConnectWebsocket(t) ==
    /\ pc[t] = "start"
    /\ call[t].op = "connect_websocket"
    /\ LoopFree(t)
    /\ LET c == call[t] IN
       IF ~ValidStreamMode(c.mode)
       THEN Reject(t)
       ELSE /\ opened' = [opened EXCEPT ![t] = Append(@, StreamUrl(c.mode, c.stream_name))]
            /\ pc' = [pc EXCEPT ![t] = "connecting"]
            /\ UNCHANGED <<tunables, clock, heap, call, frame, sent, recv, ret, result,
                           console, trace_file, slept>>

\* Lines 724-729: the handshake ends; the connection is returned, or the error of
\* websockets.connect goes to the caller.
Connected(t) ==
    /\ pc[t] = "connecting"
    /\ LoopFree(t)
    /\ \E ok \in BOOLEAN :
        IF ok
        THEN /\ pc' = [pc EXCEPT ![t] = "returned"]
             /\ result' = [result EXCEPT ![t] = Returned(Last(opened[t]))]
        ELSE /\ pc' = [pc EXCEPT ![t] = "raised"]
             /\ result' = [result EXCEPT ![t] = Raised("WebSocketException", 0, <<>>)]
    /\ UNCHANGED <<tunables, clock, heap, call, frame, sent, recv, ret, console,
                   trace_file, slept, opened>>

(***************************************************************************)
(* Calls of float_to_str_floor, float_to_str_ceil, float_to_str_round.     *)
(***************************************************************************)
FormatCall(op, amount, precision) == [op |-> op, amount |-> amount, precision |-> precision]

\* The function returns its text, or its exception goes to the caller.
Format(t, res) ==
    /\ IF res.type = "str"
       THEN /\ pc' = [pc EXCEPT ![t] = "returned"]
            /\ result' = [result EXCEPT ![t] = Returned(res.text)]
       ELSE /\ pc' = [pc EXCEPT ![t] = "raised"]
            /\ result' = [result EXCEPT ![t] = Raised(res.type, 0, <<>>)]
    /\ UNCHANGED <<tunables, clock, heap, call, frame, sent, recv, ret, console,
                   trace_file, slept, opened>>

FloatToStrFloor(t) ==
    /\ pc[t] = "start"
    /\ call[t].op = "float_to_str_floor"
    /\ Format(t, float_to_str_floor(call[t].amount, call[t].precision))

FloatToStrCeil(t) ==
    /\ pc[t] = "start"
    /\ call[t].op = "float_to_str_ceil"
    /\ Format(t, float_to_str_ceil(call[t].amount, call[t].precision))

FloatToStrRound(t) ==
    /\ pc[t] = "start"
    /\ call[t].op = "float_to_str_round"
    /\ Format(t, float_to_str_round(call[t].amount, call[t].precision))

\* A millisecond passes.
Tick ==
    /\ clock < MaxClock
    /\ clock' = clock + 1
    /\ UNCHANGED <<tunables, heap, call, pc, frame, sent, recv, ret, result, console,
                   trace_file, slept, opened>>

(***************************************************************************)
(* Specifications.                                                         *)
(***************************************************************************)
EmptyHeap == [d \in DictIds |-> <<>>]

\* Nothing has run yet; `calls` says what each task will invoke, `absent` which
\* tasks do not exist.
Fresh(calls) ==
    /\ clock = 0
    /\ call = calls
    /\ pc = [t \in Tasks |-> IF calls[t].op = "none" THEN "absent" ELSE "start"]
    /\ frame = [t \in Tasks |-> NoFrame]
    /\ sent = [t \in Tasks |-> <<>>]
    /\ recv = [t \in Tasks |-> <<>>]
    /\ ret = [t \in Tasks |-> NoRet]
    /\ result = [t \in Tasks |-> NoRet]
    /\ console = <<>>
    /\ trace_file = <<>>
    /\ slept = [t \in Tasks |-> <<>>]
    /\ opened = [t \in Tasks |-> <<>>]

DefaultTunables ==
    /\ only_print_error = TRUE
    /\ trace_to_file = FALSE
    /\ print_simple_trace = TRUE

\* One caller, any operation, the module's tunables as the source sets them.
Init ==
    /\ DefaultTunables
    /\ \E c \in RequestCalls \cup ListenKeyCalls :
        /\ Fresh([t \in Tasks |-> IF t = 1 THEN c ELSE NoCall])
        /\ \E d \in (IF c.data.kind = "dict" THEN DictContents ELSE {<<>>}) :
            heap = [EmptyHeap EXCEPT !["d1"] = d]

Next ==
    \/ Tick
    \/ \E t \in Tasks :
        \/ Request(t)
        \/ CreateListenKey(t)
        \/ OvertimeListenKey(t)
        \/ Retry(t)
        \/ Receive(t)

Spec == Init /\ [][Next]_vars

\* The calls of the specifications below: GET requests with a string payload, or
\* with one of the callers' mappings.
StrCalls ==
    {RequestCall("GET", StrData(<<"symbol", "=", "BTCUSDT">>), FALSE, sg, n, FALSE) :
        sg \in BOOLEAN, n \in 0..MaxRetry}

DictCalls(refs) ==
    {RequestCall("GET", DictData(r), FALSE, TRUE, n, au) :
        r \in refs, n \in {0, 1}, au \in BOOLEAN}

\* One caller of request(), every setting of the three tunables.
InitTunables ==
    /\ only_print_error \in BOOLEAN
    /\ trace_to_file \in BOOLEAN
    /\ print_simple_trace \in BOOLEAN
    /\ heap = EmptyHeap
    /\ \E c \in StrCalls : Fresh([t \in Tasks |-> IF t = 1 THEN c ELSE NoCall])

NextRequest ==
    \/ Tick
    \/ \E t \in Tasks :
        \/ Request(t)
        \/ Retry(t)
        \/ Receive(t)

SpecTunables == InitTunables /\ [][NextRequest]_vars

\* Two tasks call request() on the same client; the mappings they pass may be one
\* and the same object.
InitConcurrent ==
    /\ DefaultTunables
    /\ heap = [EmptyHeap EXCEPT !["d1"] = << <<"symbol", "BTCUSDT">> >>,
                                !["d2"] = << <<"symbol", "BTCUSDT">> >>]
    /\ \E c1 \in DictCalls({"d1"}), c2 \in DictCalls(CallerDicts) :
        Fresh([t \in Tasks |-> IF t = 1 THEN c1 ELSE c2])

SpecConcurrent == InitConcurrent /\ [][NextRequest]_vars

\* Two callers of connect_websocket.
InitWebsocket ==
    /\ DefaultTunables
    /\ heap = EmptyHeap
    /\ \E c1 \in WebsocketCalls, c2 \in WebsocketCalls :
        Fresh([t \in Tasks |-> IF t = 1 THEN c1 ELSE c2])

NextWebsocket == \E t \in Tasks : ConnectWebsocket(t) \/ Connected(t)

SpecWebsocket == InitWebsocket /\ [][NextWebsocket]_vars

\* The text of a decimal literal: the digits before and after the point.
Literal(int, frac) == Chars(int) \o <<".">> \o Chars(frac)

\* float amounts, written as the literals of a Python program.
FloatAmounts ==
    {float(text) : text \in {
        Literal(<<0>>, <<0, 8, 8, 1, 4, 1, 7, 4, 9, 9, 9, 9, 9, 9, 9, 9, 9>>),
        Literal(<<5, 2>>, <<3, 0, 0, 0, 0, 0, 0, 0, 0, 0, 0, 0, 0, 0, 4>>),
        Literal(<<1, 1, 7, 9, 1, 8, 7, 0, 3, 6, 7>>, <<1, 0, 6, 1, 0, 6>>),
        Literal(<<3, 0, 9, 5, 6, 3, 1, 2, 4, 9>>, <<4, 9, 4, 6, 0, 7>>),
        Literal(<<1, 2, 3, 4, 5, 6>>, <<7, 8, 9>>),
        Literal(<<0>>, <<2, 9, 5>>),
        Literal(<<0>>, <<3>>),
        Literal(<<2>>, <<5>>),
        Literal(<<1>>, <<0>>),
        Literal(<<0>>, <<0>>),
        Literal(<<0>>, <<0, 0, 0, 0, 0, 0, 0, 1, 5>>),
        Literal(<<3, 3, 5, 5, 4, 4, 3, 2>>, <<1, 2, 3, 4, 5, 6, 7, 8>>),
        Literal(<<4, 4, 9, 9, 9, 9, 9, 9>>, <<9, 9, 9, 9, 9, 9, 9, 9>>)}}
    \cup {float(Literal(<<i>>, <<j, 9, 5>>)) : i \in 0..3, j \in 0..9}

\* str amounts: decimal numbers, and a text that is not a number.
StrAmounts ==
    {PyStr(text) : text \in {
        Literal(<<0>>, <<3>>),
        Literal(<<1, 2>>, <<3, 4, 0>>),
        <<"1", "e", "-", "0", "5">>,
        <<"a", "b", "c">>}}

Amounts == FloatAmounts \cup StrAmounts \cup {PyInt(Big(5)), PyNone}

Precisions == {0, 1, 2, DefaultPrecision}

FormatOps == {"float_to_str_floor", "float_to_str_ceil", "float_to_str_round"}

\* One caller of one of the three formatting functions.
InitFormat ==
    /\ DefaultTunables
    /\ heap = EmptyHeap
    /\ \E op \in FormatOps, a \in Amounts, p \in Precisions :
        Fresh([t \in Tasks |-> IF t = 1 THEN FormatCall(op, a, p) ELSE NoCall])

NextFormat == \E t \in Tasks : FloatToStrFloor(t) \/ FloatToStrCeil(t) \/ FloatToStrRound(t)

SpecFormat == InitFormat /\ [][NextFormat]_vars

\* The waits a caller may ask for between attempts.
Intervals == {DefaultRetryInterval, 1}

\* Requests with every retry budget, negative ones included, and every interval.
RetryCalls ==
    {[RequestCall("GET", StrData(<<"symbol", "=", "BTCUSDT">>), FALSE, FALSE, n, FALSE)
        EXCEPT !.retry_interval = w] : n \in -1..MaxRetry, w \in Intervals}

InitRetry ==
    /\ DefaultTunables
    /\ heap = EmptyHeap
    /\ \E c \in RetryCalls : Fresh([t \in Tasks |-> IF t = 1 THEN c ELSE NoCall])

\* One caller of request(); every network call and every wait returns, and the
\* event loop runs a coroutine that can go on.
SpecRetry ==
    /\ InitRetry
    /\ [][NextRequest]_vars
    /\ \A t \in Tasks : WF_vars(Request(t) \/ Retry(t) \/ Receive(t))

\* Two tasks make the same call; the exchange answers each as it likes.
PairCalls ==
    {RequestCall("GET", StrData(<<"symbol", "=", "BTCUSDT">>), FALSE, FALSE, n, FALSE) :
        n \in -1..1}

InitPair ==
    /\ DefaultTunables
    /\ heap = EmptyHeap
    /\ \E c \in PairCalls : Fresh([t \in Tasks |-> c])

SpecPair == InitPair /\ [][NextRequest]_vars

\* The arguments of trade_market and transfer_asset that are tried.
Sides == {"BUY", "sell", "HOLD"}
TradeAmounts ==
    {float(Literal(<<1, 0, 0>>, <<5>>)), PyStr(Literal(<<0>>, <<3>>)),
     PyStr(<<"a", "b", "c">>), PyInt(Big(5)), PyNone}

TradeCalls ==
    {TradeCall("btcusdt", m, a, sd, ts, vm) :
        m \in Modes, a \in TradeAmounts, sd \in Sides, ts \in BOOLEAN, vm \in BOOLEAN}

\* The transfer modes the operation documents (lines 600-624).
TransferModes ==
    {"MAIN_C2C", "MAIN_UMFUTURE", "MAIN_CMFUTURE", "MAIN_MARGIN", "MAIN_MINING",
     "C2C_MAIN", "C2C_UMFUTURE", "C2C_MINING", "UMFUTURE_MAIN", "UMFUTURE_C2C",
     "UMFUTURE_MARGIN", "CMFUTURE_MAIN", "MARGIN_MAIN", "MARGIN_UMFUTURE",
     "MINING_MAIN", "MINING_UMFUTURE", "MINING_C2C", "MARGIN_CMFUTURE",
     "CMFUTURE_MARGIN", "MARGIN_C2C", "C2C_MARGIN", "MARGIN_MINING", "MINING_MARGIN"}

TransferCalls ==
    {TransferCall(m, "usdt", a) :
        m \in {"MAIN_MARGIN", "main_c2c", "BOGUS"}, a \in TradeAmounts}

\* One caller of trade_market or transfer_asset.
InitTrade ==
    /\ DefaultTunables
    /\ heap = EmptyHeap
    /\ \E c \in TradeCalls \cup TransferCalls :
        Fresh([t \in Tasks |-> IF t = 1 THEN c ELSE NoCall])

NextTrade ==
    \/ Tick
    \/ \E t \in Tasks :
        \/ TradeMarket(t)
        \/ TransferAsset(t)
        \/ Retry(t)
        \/ Receive(t)

SpecTrade == InitTrade /\ [][NextTrade]_vars

(***************************************************************************)
(* Properties.                                                             *)
(***************************************************************************)
\* The retry budget request() was called with.
Budget(t) == IF call[t].op = "request" THEN call[t].retry_count ELSE DefaultRetryCount

AllFailed(t) == \A i \in 1..Len(recv[t]) : recv[t][i].status_code # 200

IsListenKeyOp(op) == op \in {"create_listen_key", "overtime_listen_key"}

\* C1: with a retry budget N >= 0 and only non-200 responses, request() makes
\* exactly N+1 network attempts and then raises BinanceException with the status
\* code and body of the last response; it never raises while retries remain.
C1_ExhaustedBudgetRaises ==
    \A t \in Tasks : Budget(t) >= 0 =>
        /\ Len(sent[t]) <= Budget(t) + 1
        /\ ret[t].kind = "BinanceException" =>
            /\ AllFailed(t)
            /\ Len(sent[t]) = Budget(t) + 1
            /\ Len(recv[t]) = Budget(t) + 1
            /\ frame[t].retry_count = 0
            /\ ret[t].status_code = Last(recv[t]).status_code
            /\ ret[t].response = Last(recv[t]).text
        /\ (AllFailed(t) /\ Len(recv[t]) = Budget(t) + 1) =>
            /\ ret[t].kind = "BinanceException"
            /\ pc[t] = "raised"

\* A budget of 2 used up by three failures whose last differs from the first.
C1_Witness ==
    \E t \in Tasks :
        /\ call[t].op = "request" /\ call[t].retry_count = 2
        /\ ret[t].kind = "BinanceException"
        /\ Len(sent[t]) = 3
        /\ recv[t][1] # recv[t][3]

\* C2: when the first k <= N attempts fail and attempt k+1 answers 200, request()
\* returns the decoded JSON body of attempt k+1, raises nothing and makes no
\* further attempt.
C2_SuccessReturns ==
    \A t \in Tasks :
        /\ \A i \in 1..Len(recv[t]) : recv[t][i].status_code = 200 =>
            /\ i = Len(recv[t])
            /\ i <= Budget(t) + 1 \/ i = 1
            /\ Len(sent[t]) = i
            /\ ret[t] = Returned(JsonDecode(recv[t][i].text))
            /\ pc[t] \in {"returned", "raised"}
            /\ call[t].op = "request" => pc[t] = "returned" /\ result[t] = ret[t]
        /\ ret[t].kind = "return" =>
            /\ Len(recv[t]) > 0
            /\ Last(recv[t]).status_code = 200

\* Two failures, then a 200 on the third attempt of a budget of 2.
C2_Witness ==
    \E t \in Tasks :
        /\ call[t].op = "request" /\ call[t].retry_count = 2
        /\ Len(recv[t]) = 3
        /\ recv[t][1].status_code # 200 /\ recv[t][2].status_code # 200
        /\ recv[t][3].status_code = 200
        /\ ret[t].kind = "return"
        /\ ret[t].value = << <<"orderId", "7">> >>

\* The places of parameter k in query string q, and its value at place i.
ParamPlaces(q, k) ==
    {i \in 1..Len(q) : /\ q[i] = k
                       /\ i = 1 \/ q[i - 1] = "&"
                       /\ i + 2 <= Len(q)
                       /\ q[i + 1] = "="}
ParamAt(q, i) == q[i + 2]

AutoTimestamped(t) ==
    call[t].op = "request" /\ call[t].auto_timestamp /\ call[t].data.kind = "dict"

\* C3: with auto_timestamp and a mapping, every attempt sends exactly one
\* timestamp, the clock value read at that attempt, whatever timestamp the caller
\* supplied; so after the clock advanced, a retry does not send the previous value.
C3_TimestampRefreshed ==
    \A t \in Tasks : AutoTimestamped(t) =>
        \A i \in 1..Len(sent[t]) :
            LET q == sent[t][i].url.query
                places == ParamPlaces(q, "timestamp")
            IN  /\ Cardinality(places) = 1
                /\ \A j \in places : ParamAt(q, j) = ToString(sent[t][i].at)
                /\ (i > 1 /\ sent[t][i].at > sent[t][i - 1].at) =>
                    \A j \in places, h \in ParamPlaces(sent[t][i - 1].url.query, "timestamp") :
                        ParamAt(q, j) # ParamAt(sent[t][i - 1].url.query, h)

\* A retry after the clock advanced, on a mapping in which the caller had put a
\* timestamp (it stands first, before the symbol).
C3_Witness ==
    \E t \in Tasks :
        /\ AutoTimestamped(t)
        /\ Len(sent[t]) >= 2
        /\ sent[t][2].at > sent[t][1].at
        /\ sent[t][2].url.query[1] = "timestamp"
        /\ Len(sent[t][2].url.query) > 3

\* C4: in every attempt that sends a signature, the signature in the URL is the
\* HMAC under the private key of the query string in that same URL.
C4_SignatureOverSentQuery ==
    \A t \in Tasks : \A i \in 1..Len(sent[t]) :
        LET u == sent[t][i].url IN
        u.signature # <<>> => u.signature = <<Hmac(private_key, u.query)>>

\* A signed retry whose query string differs from the one sent before.
C4_Witness ==
    \E t \in Tasks :
        /\ Len(sent[t]) >= 2
        /\ sent[t][2].url.signature # <<>>
        /\ sent[t][2].url.query # sent[t][1].url.query

\* C5: create_listen_key and overtime_listen_key with mode ISOLATED and no symbol
\* raise without any network call.
C5_MissingSymbolNoNetwork ==
    \A t \in Tasks :
        (/\ IsListenKeyOp(call[t].op)
         /\ call[t].mode = "ISOLATED" /\ call[t].symbol = None
         /\ pc[t] # "start") =>
            /\ pc[t] = "raised"
            /\ result[t].kind = "Exception"
            /\ sent[t] = <<>> /\ recv[t] = <<>>

C5_Witness ==
    \E t \in Tasks :
        /\ call[t].op = "create_listen_key"
        /\ call[t].mode = "ISOLATED" /\ call[t].symbol = None
        /\ pc[t] = "raised"

\* C6: create_listen_key and overtime_listen_key with a mode other than MAIN,
\* MARGIN, ISOLATED, FUTURE raise without any network call, whatever the symbol.
C6_InvalidModeNoNetwork ==
    \A t \in Tasks :
        (/\ IsListenKeyOp(call[t].op)
         /\ call[t].mode \notin {"MAIN", "MARGIN", "ISOLATED", "FUTURE"}
         /\ pc[t] # "start") =>
            /\ pc[t] = "raised"
            /\ result[t].kind = "Exception"
            /\ sent[t] = <<>> /\ recv[t] = <<>>

C6_Witness ==
    \E t \in Tasks :
        /\ call[t].op = "overtime_listen_key"
        /\ call[t].mode = "main" /\ call[t].symbol # None
        /\ pc[t] = "raised"

\* C7: request() with a method that is not GET, POST or PUT in any letter case
\* fails before any network call and uses no retry.
C7_InvalidMethodNoNetwork ==
    \A t \in Tasks :
        (/\ call[t].op = "request"
         /\ Upper(call[t].method) \notin {"GET", "POST", "PUT"}
         /\ pc[t] # "start") =>
            /\ pc[t] = "raised"
            /\ ret[t].kind = "Exception"
            /\ sent[t] = <<>> /\ recv[t] = <<>>
            /\ frame[t].retry_count = call[t].retry_count

C7_Witness ==
    \E t \in Tasks :
        /\ call[t].op = "request"
        /\ call[t].method = "delete" /\ call[t].retry_count = 2
        /\ call[t].data.kind = "dict"
        /\ pc[t] = "raised"

Range(s) == {s[i] : i \in 1..Len(s)}

\* C8: every non-200 response is shown to the operator, on the console or in the
\* trace file, with the request URL, the status code and the whole body, under
\* every setting of only_print_error, print_simple_trace and trace_to_file.
C8_EveryFailureSurfaced ==
    \A t \in Tasks : \A i \in 1..Len(recv[t]) :
        recv[t][i].status_code # 200 =>
            Block(sent[t][i].url, recv[t][i].status_code, recv[t][i].text)
                \in Range(console) \cup Range(trace_file)

\* C9: the payload of a request is not affected by another request on the same
\* client: with auto_timestamp off, a request serializes the mapping it was given
\* and never writes to it, so every attempt sends the query string of the first.
C9_PayloadUnaffectedByOthers ==
    \A t \in Tasks :
        (call[t].op = "request" /\ ~call[t].auto_timestamp) =>
            \A i \in 1..Len(sent[t]) : sent[t][i].url.query = sent[t][1].url.query

Suspended(t) == pc[t] \in {"inflight", "sleeping"}

\* C10: while one request is suspended, awaiting its response or waiting between
\* attempts, the next step of every other request can be taken: it can start,
\* receive its response, and go on to its next attempt.
C10_NoRequestBlocksAnother ==
    \A t \in Tasks : \A u \in Tasks \ {t} :
        Suspended(t) =>
            /\ pc[u] = "start" => ENABLED Request(u)
            /\ pc[u] = "inflight" => ENABLED Receive(u)
            /\ pc[u] = "sleeping" => ENABLED Retry(u)

\* Task 1 still awaits the response to its first attempt, made at time 0, while
\* task 2 has started after it, made two attempts and returned.
C10_Witness ==
    /\ pc[1] = "inflight" /\ Len(sent[1]) = 1 /\ sent[1][1].at = 0
    /\ Len(sent[2]) = 2 /\ sent[2][1].at = 1
    /\ pc[2] = "returned"

ListenKeyModes == {"MAIN", "MARGIN", "ISOLATED", "FUTURE"}

\* C12: the four modes have four different (area, path) endpoints;
\* create_listen_key sends an unsigned POST to its mode's endpoint and returns the
\* listenKey field of the response; overtime_listen_key sends an unsigned PUT to
\* the endpoint of the same mode with the token, and with the symbol exactly when
\* the mode is ISOLATED.
C12_ListenKeyEndpoints ==
    /\ \A m1 \in ListenKeyModes : \A m2 \in ListenKeyModes \ {m1} :
        Endpoint(m1) # Endpoint(m2)
    /\ \A t \in Tasks : IsListenKeyOp(call[t].op) =>
        LET c == call[t]
            create == c.op = "create_listen_key"
        IN  /\ \A i \in 1..Len(sent[t]) :
                LET s == sent[t][i] IN
                /\ c.mode \in ListenKeyModes
                /\ s.method = IF create THEN "POST" ELSE "PUT"
                /\ s.url.host = <<Endpoint(c.mode)[1], base_url>>
                /\ s.url.path = <<Endpoint(c.mode)[2], "">>
                /\ s.url.signature = <<>>
                /\ ParamPlaces(s.url.query, "signature") = {}
                /\ create => ParamPlaces(s.url.query, "listenKey") = {}
                /\ ~create =>
                    /\ ParamPlaces(s.url.query, "listenKey") = {1}
                    /\ ParamAt(s.url.query, 1) = c.key
                /\ ParamPlaces(s.url.query, "symbol") # {} <=> c.mode = "ISOLATED"
                /\ \A j \in ParamPlaces(s.url.query, "symbol") :
                    ParamAt(s.url.query, j) = Upper(c.symbol)
            /\ (create /\ pc[t] = "returned") =>
                /\ HasKey(JsonDecode(Last(recv[t]).text), "listenKey")
                /\ result[t].value = GetItem(JsonDecode(Last(recv[t]).text), "listenKey")
            /\ (create /\ Len(recv[t]) > 0 /\ Last(recv[t]) = Response(200, KeyText)) =>
                /\ pc[t] = "returned"
                /\ result[t].value = "k1"

\* overtime_listen_key for an isolated pair has sent its PUT with token and symbol.
C12_Witness ==
    \E t \in Tasks :
        /\ call[t].op = "overtime_listen_key" /\ call[t].mode = "ISOLATED"
        /\ pc[t] = "returned"
        /\ sent[t][1].url.query = <<"listenKey", "=", "k1", "&", "symbol", "=", "BTCUSDT">>

\* The number of "&" units of a query string.
Separators(q) == Cardinality({i \in 1..Len(q) : q[i] = "&"})

\* C13: make_query_string gives the empty string for an empty mapping, and for n
\* >= 1 pairs the key=value pairs in insertion order joined by n-1 "&", with no
\* "&" at either end.  (The mapping of a task is unchanged between the pass that
\* serializes it and the next one.)
C13_QueryStringShape ==
    \A t \in Tasks :
        (frame[t].data.kind = "dict" /\ Len(sent[t]) > 0) =>
            LET d == heap[frame[t].data.ref]
                q == Last(sent[t]).url.query
                n == Len(d)
            IN  /\ n = 0 => q = <<>>
                /\ n >= 1 =>
                    /\ Len(q) = 4 * n - 1
                    /\ Separators(q) = n - 1
                    /\ q[1] # "&" /\ q[Len(q)] # "&"
                    /\ \A i \in 1..n :
                        /\ q[4 * i - 3] = d[i][1]
                        /\ q[4 * i - 2] = "="
                        /\ q[4 * i - 1] = d[i][2]
                        /\ i < n => q[4 * i] = "&"

\* A mapping of three pairs has been serialized.
C13_Witness ==
    \E t \in Tasks :
        /\ frame[t].data.kind = "dict" /\ Len(sent[t]) > 0
        /\ Len(heap[frame[t].data.ref]) = 3
        /\ Len(Last(sent[t]).url.query) = 11

\* C20: with auto_timestamp, every attempt carries a timestamp read at that
\* attempt, whether the parameters are a mapping or a pre-serialized string.
C20_TimestampInEveryPayload ==
    \A t \in Tasks :
        (/\ call[t].op = "request" /\ call[t].auto_timestamp
         /\ call[t].data.kind \in {"dict", "str"}) =>
            \A i \in 1..Len(sent[t]) :
                LET q == sent[t][i].url.query IN
                /\ ParamPlaces(q, "timestamp") # {}
                /\ \A j \in ParamPlaces(q, "timestamp") :
                    ParamAt(q, j) = ToString(sent[t][i].at)

Done(t) == pc[t] \in {"returned", "raised"}

\* C17: every request() call makes at most max(retry_count, 0) + 1 attempts and
\* then ends, for every retry_count, zero and negative values included, provided
\* each network call and each wait returns.
C17_RequestTerminates ==
    /\ [](\A t \in Tasks : Len(sent[t]) <= Max(Budget(t), 0) + 1)
    /\ <>(\A t \in Tasks : pc[t] # "absent" => Done(t))

\* A call with a negative budget has ended after its one attempt failed.
C17_Witness ==
    \E t \in Tasks :
        /\ call[t].retry_count = -1
        /\ pc[t] = "raised" /\ Len(recv[t]) = 1

\* C18: a non-200 response that leaves retries lowers the count by exactly one and
\* is followed by exactly one wait of retry_interval before the next attempt; there
\* is no wait before the first attempt, after a 200 response, or after the failing
\* response that raises.
C18_OneWaitPerRetry ==
    \A t \in Tasks : pc[t] \notin {"absent", "start"} =>
        /\ Len(slept[t]) <= Len(recv[t])
        /\ \A i \in 1..Len(slept[t]) :
            /\ slept[t][i] = call[t].retry_interval
            /\ recv[t][i].status_code # 200
        /\ frame[t].retry_count = call[t].retry_count - Len(slept[t])
        /\ pc[t] = "inflight" => Len(slept[t]) = Len(sent[t]) - 1
        /\ pc[t] = "sleeping" =>
            /\ Len(slept[t]) = Len(recv[t])
            /\ Len(sent[t]) = Len(recv[t])
            /\ frame[t].retry_count >= 0
        /\ Done(t) => Len(slept[t]) = Len(sent[t]) - 1

\* Two waits of one second were made, and the third attempt ended the call.
C18_Witness ==
    \E t \in Tasks :
        /\ Done(t) /\ Len(sent[t]) = 3
        /\ slept[t] = <<1, 1>>

\* Whether each response was a 200 or not.
SamePattern(a, b) ==
    /\ Len(recv[a]) = Len(recv[b])
    /\ \A i \in 1..Len(recv[a]) :
        recv[a][i].status_code = 200 <=> recv[b][i].status_code = 200

\* What request() did with the responses it has had so far.
Decision(t) ==
    IF ret[t].kind # "none" THEN ret[t].kind
    ELSE IF Len(recv[t]) = 0 THEN "first" ELSE "retry"

\* C19: what request() does depends only on whether each status was 200 and on
\* the retries left: two runs of the same call whose responses differ only in
\* which non-200 status came back (400, 500, a 2xx other than 200) make the same
\* number of attempts and end the same way.
C19_OnlySuccessOrFailureMatters ==
    \A a \in Tasks : \A b \in Tasks :
        (call[a] = call[b] /\ SamePattern(a, b)) =>
            /\ Decision(a) = Decision(b)
            /\ (Done(a) /\ Done(b)) =>
                /\ Len(sent[a]) = Len(sent[b])
                /\ Len(slept[a]) = Len(slept[b])

\* One run was answered 201, the other 500; both went on to a second attempt.
C19_Witness ==
    \E a \in Tasks : \E b \in Tasks :
        /\ call[a] = call[b] /\ SamePattern(a, b)
        /\ Done(a) /\ Done(b)
        /\ recv[a][1].status_code = 201 /\ recv[b][1].status_code = 500
        /\ Len(sent[a]) = 2 /\ Len(sent[b]) = 2

\* C16: connect_websocket with a mode other than MAIN or FUTURE raises without
\* opening a connection; with MAIN or FUTURE the URL it connects to is fixed by the
\* mode, the base domain and the stream name alone.
C16_StreamUrlByMode ==
    /\ \A t \in Tasks : call[t].op = "connect_websocket" =>
        LET c == call[t] IN
        /\ Len(opened[t]) <= 1
        /\ c.mode \notin {"MAIN", "FUTURE"} =>
            /\ opened[t] = <<>>
            /\ pc[t] # "start" => (pc[t] = "raised" /\ result[t].kind = "Exception")
        /\ c.mode \in {"MAIN", "FUTURE"} =>
            /\ pc[t] # "start" => Len(opened[t]) = 1
            /\ \A i \in 1..Len(opened[t]) :
                opened[t][i] = IF c.mode = "MAIN"
                               THEN <<"wss://stream.", base_url, ":9443/ws/", c.stream_name>>
                               ELSE <<"wss://fstream.", base_url, "/ws/", c.stream_name>>
    /\ \A a \in Tasks : \A b \in Tasks :
        (/\ call[a].op = "connect_websocket" /\ call[b].op = "connect_websocket"
         /\ call[a].mode = call[b].mode /\ call[a].stream_name = call[b].stream_name
         /\ pc[a] # "start" /\ pc[b] # "start") => opened[a] = opened[b]

\* One caller was refused for its mode, the other is connected to the futures
\* stream.
C16_Witness ==
    \E a \in Tasks : \E b \in Tasks :
        /\ call[a].op = "connect_websocket" /\ call[a].mode = "MARGIN"
        /\ pc[a] = "raised"
        /\ call[b].op = "connect_websocket" /\ call[b].mode = "FUTURE"
        /\ pc[b] = "returned"
        /\ opened[b] = <<StreamUrl("FUTURE", "k1")>>

\* The float an amount stands for: a str is read by float().
AmountValue(amount) == IF amount.type = "str" THEN float(amount.text) ELSE amount

\* a <= b for two floats, as exact numbers.
LessEq(a, b) ==
    LET e == Min(a.e, b.e)
    IN  Cmp(ShiftLeft(a.m, a.e - e), ShiftLeft(b.m, b.e - e)) <= 0

\* |a - b| < 10^-p for two floats, as exact numbers.
Within(a, b, p) ==
    LET e == Min(a.e, b.e)
        x == ShiftLeft(a.m, a.e - e)
        y == ShiftLeft(b.m, b.e - e)
        d == IF Cmp(x, y) >= 0 THEN Sub(x, y) ELSE Sub(y, x)
    IN  Cmp(MulPow10(d, p), ShiftLeft(Big(1), -e)) < 0

\* C14: the number float_to_str_floor(a, p) renders is <= a, the number
\* float_to_str_ceil(a, p) renders is >= a, and each is less than 10^-p away from
\* a.  (The rendered text is read back with float(), the reading kindest to the
\* functions.)
C14_FloorBelowCeilAbove ==
    \A t \in Tasks :
        (/\ call[t].op \in {"float_to_str_floor", "float_to_str_ceil"}
         /\ pc[t] = "returned"
         /\ AmountValue(call[t].amount).type = "float") =>
            LET a == AmountValue(call[t].amount)
                r == float(result[t].value)
            IN  /\ call[t].op = "float_to_str_floor" => LessEq(r, a)
                /\ call[t].op = "float_to_str_ceil" => LessEq(a, r)
                /\ Within(r, a, call[t].precision)

\* C15: float_to_str_round is idempotent at a fixed precision: applied to its own
\* result it returns that result.
C15_RoundIdempotent ==
    \A t \in Tasks :
        (call[t].op = "float_to_str_round" /\ pc[t] = "returned") =>
            float_to_str_round(PyStr(result[t].value), call[t].precision)
                = PyStr(result[t].value)

\* 0.295 has been rounded to two places, and 123456.789 to one.
C15_Witness ==
    \E t \in Tasks :
        /\ call[t].op = "float_to_str_round" /\ pc[t] = "returned"
        /\ \/ /\ call[t].amount = float(Literal(<<0>>, <<2, 9, 5>>))
              /\ call[t].precision = 2
              /\ result[t].value = Literal(<<0>>, <<2, 9>>)
           \/ /\ call[t].amount = float(Literal(<<1, 2, 3, 4, 5, 6>>, <<7, 8, 9>>))
              /\ call[t].precision = 1
              /\ result[t].value = Literal(<<1, 2, 3, 4, 5, 6>>, <<8>>)

\* The arguments the two operations document as acceptable.
AmountTypes == {"float", "int", "str"}

Malformed(c) ==
    \/ /\ c.op = "trade_market"
       /\ \/ ~ValidMode(Upper(c.mode))
          \/ ~ValidSide(Upper(c.side))
          \/ c.amount.type \notin AmountTypes
    \/ /\ c.op = "transfer_asset"
       /\ \/ Upper(c.mode) \notin TransferModes
          \/ c.amount.type \notin AmountTypes

\* C11: in trade_market and transfer_asset a malformed mode, side or amount type
\* is rejected with an error before any network call is made, whatever the
\* other arguments are, and the error is never retried: such a call sends
\* nothing, waits for nothing, and once it has run it has raised.
C11_MalformedRejectedBeforeNetwork ==
    \A t \in Tasks :
        (call[t].op \in {"trade_market", "transfer_asset"} /\ Malformed(call[t]))
            => /\ sent[t] = <<>>
               /\ slept[t] = <<>>
               /\ pc[t] \in {"start", "raised"}

\* C21: in every attempt of request(), the URL carries a signature parameter
\* if and only if send_signature is set, and the path carries the /test suffix
\* if and only if test is set; on the first attempt and on every retry alike.
C21_SignatureAndTestFlags ==
    \A t \in Tasks : call[t].op = "request" =>
        \A i \in 1..Len(sent[t]) :
            /\ Len(sent[t][i].url.signature) = (IF call[t].send_signature THEN 1 ELSE 0)
            /\ ParamPlaces(sent[t][i].url.query, "signature") = {}
            /\ sent[t][i].url.path =
                   <<call[t].path_url, IF call[t].test THEN "/test" ELSE "">>

\* A signed dry-run request on its third attempt, after the clock advanced.
C21_Witness ==
    \E t \in Tasks :
        /\ call[t].op = "request" /\ call[t].send_signature /\ call[t].test
        /\ Len(sent[t]) = 3
        /\ sent[t][3].at > sent[t][1].at
        /\ sent[t][3].url.signature # <<>>
        /\ sent[t][3].url.path[2] = "/test"

\* The records of the attempts of task t that were answered: URL, status, body.
Records(t) ==
    [i \in 1..Len(recv[t]) |->
        Block(sent[t][i].url, recv[t][i].status_code, recv[t][i].text)]

\* C22: with trace_to_file set, every attempt of request() appends exactly one
\* record (URL, status, whole body) to the trace file, whatever the status and
\* whether a retry, a return or an exception follows; records once written are
\* never changed; with trace_to_file unset nothing is appended.
C22_OneTraceRecordPerAttempt ==
    /\ [](\A t \in Tasks : pc[t] # "absent" =>
            trace_file = IF trace_to_file THEN Records(t) ELSE <<>>)
    /\ [][/\ Len(trace_file') <= Len(trace_file) + 1
          /\ SubSeq(trace_file', 1, Len(trace_file)) = trace_file]_vars

\* Two failures with different answers and then a 200, all three traced, the
\* first body longer than what the console shows of it.
C22_Witness ==
    \E t \in Tasks :
        /\ trace_to_file
        /\ pc[t] = "returned"
        /\ Len(trace_file) = 3
        /\ trace_file[1].status_code = 500 /\ trace_file[1].text = LongText
        /\ trace_file[2].status_code = 400
        /\ trace_file[3].status_code = 200

IsNotTimestamp(pair) == pair[1] # "timestamp"
Others(d) == SelectSeq(d, IsNotTimestamp)

\* Task t makes an attempt in this step.
Attempts(t) == Len(sent'[t]) = Len(sent[t]) + 1

====
